---- MODULE Spec2Model ----
(***************************************************************************)
(* Model of the gowaveform sample-aggregation engine                       *)
(* (waveform/waveform.go, waveform/calculations.go).                       *)
(*                                                                         *)
(* Go slices are 0-based; a Go slice s is the TLA+ sequence whose element  *)
(* s[i] is At(s, i).  float64 values are modelled by exact rationals where *)
(* the code's arithmetic is rational; the result of fastSqrt (an IEEE-754  *)
(* bit manipulation) is kept as a term over its exact rational argument.   *)
(***************************************************************************)
EXTENDS Integers, Naturals, Sequences, FiniteSets, TLC

(***************************************************************************)
(* Bounds of the model.                                                    *)
(***************************************************************************)
\* longest sample sequence drawn (len(samples))
MaxSamples == 5
\* largest bar count drawn (config.Bars)
MaxBars == 5
\* largest value drawn for runtime.NumCPU()
MaxCPU == 3
\* Stand-in for the sample count 50000 of waveform.go:218 below which
\* downsampleConcurrent runs sequentially.  The comparison is the code's;
\* the number is scaled down so that both sides of it are reached with
\* sample sequences of length <= MaxSamples.
SmallDatasetLimit == 3

\* the int16 sample values drawn
SampleValues == {-32768, 16384}

(***************************************************************************)
(* CalculationMode (waveform.go:16-31).  "other" stands for every string   *)
(* that is none of the six constants.                                      *)
(***************************************************************************)
ModeRMS == "rms"
ModeLUFS == "lufs"
ModePeak == "peak"
ModeVU == "vu"
ModeDynamic == "dynamic"
ModeSmooth == "smooth"
Modes == {ModeRMS, ModeLUFS, ModePeak, ModeVU, ModeDynamic, ModeSmooth, "other"}

At(s, i) == s[i + 1]

(***************************************************************************)
(* Exact rational arithmetic: a rational is <<num, den>> in lowest terms   *)
(* with den > 0.  Each operation is a function applied to its operands: a  *)
(* function's arguments are values, so an operand that is read several     *)
(* times is computed once.                                                 *)
(***************************************************************************)
Abs(x) == IF x < 0 THEN -x ELSE x

GCDOf[a \in Nat, b \in Nat] == IF b = 0 THEN a ELSE GCDOf[b, a % b]
GCD(a, b) == GCDOf[a, b]

RatOf[n \in Int, d \in Int] ==
    LET g == GCD(Abs(n), Abs(d))
        s == IF d < 0 THEN -1 ELSE 1
    IN  <<(s * n) \div g, (s * d) \div g>>
Rat(n, d) == RatOf[n, d]

RAddOf[p \in Int \X Int, q \in Int \X Int] ==
    LET l == (p[2] \div GCD(p[2], q[2])) * q[2]
    IN  Rat(p[1] * (l \div p[2]) + q[1] * (l \div q[2]), l)
RAdd(p, q) == RAddOf[p, q]

RNeg(p) == <<-p[1], p[2]>>
RSub(p, q) == RAdd(p, RNeg(q))

RMulOf[p \in Int \X Int, q \in Int \X Int] ==
    LET a == Rat(p[1], q[2])
        b == Rat(q[1], p[2])
    IN  <<a[1] * b[1], a[2] * b[2]>>
RMul(p, q) == RMulOf[p, q]

RDivInt(p, n) == RMul(p, Rat(1, n))
RAbsOf[p \in Int \X Int] == <<Abs(p[1]), p[2]>>
RAbs(p) == RAbsOf[p]
RLessOf[p \in Int \X Int, q \in Int \X Int] == p[1] * q[2] < q[1] * p[2]
RLess(p, q) == RLessOf[p, q]
RZero == <<0, 1>>
ROne == <<1, 1>>

(***************************************************************************)
(* A float64 result.  form "exact": the rational num/den.                  *)
(* form "sqrt": fastSqrt(num/den).       form "vu": fastSqrt(num/den)*1.2. *)
(* form "lufsLoud": v*v*2.0 and form "lufsQuiet": v*0.5, for               *)
(*   v = fastSqrt(num/den).                                                *)
(* form "dynamic": fastSqrt(num/den) * (1.0 + fastSqrt(terms[1])*2.0).     *)
(* form "smooth": fastSqrt((sum of the squares of terms) / num) * 0.8.     *)
(***************************************************************************)
Float(form, q, terms) == [form |-> form, num |-> q[1], den |-> q[2], terms |-> terms]
Exact(q) == Float("exact", q, <<>>)
Zero == Exact(RZero)

\* const invMaxSample = 1.0 / 32768.0; float64(samples[i]) * invMaxSample
invMaxSample == Rat(1, 32768)
Normalized(samples, i) == RMul(<<At(samples, i), 1>>, invMaxSample)

\* fastSqrt: 0 for x <= 0, otherwise the approximation of sqrt(x)
fastSqrtOf[x \in Int \X Int] == IF ~RLess(RZero, x) THEN Zero ELSE Float("sqrt", x, <<>>)
fastSqrt(x) == fastSqrtOf[x]

(***************************************************************************)
(* calculations.go: the six calculators.  Each loop is the code's loop,    *)
(* written as a recursion on the loop variable and the accumulators.       *)
(***************************************************************************)

\* the sample indices a calculator reads for the range [start, end): every
\* calculator returns before its loop when end <= start and otherwise
\* indexes samples[i] for start <= i < end
ReadIndices(start, end) == IF end <= start THEN {} ELSE start..(end - 1)

\* variant: the sample of largest magnitude kept with its sign
RECURSIVE PeakLoopSigned(_, _, _, _)
PeakLoopSigned(samples, i, end, maxVal) ==
    IF i >= end THEN maxVal
    ELSE LET val == Normalized(samples, i)
         IN  PeakLoopSigned(samples, i + 1, end,
                            IF RLess(RAbs(maxVal), RAbs(val)) THEN val ELSE maxVal)

\* variant: no "if val < 0 { val = -val }"
RECURSIVE PeakLoopNoNegate(_, _, _, _)
PeakLoopNoNegate(samples, i, end, maxVal) ==
    IF i >= end THEN maxVal
    ELSE LET val == Normalized(samples, i)
         IN  PeakLoopNoNegate(samples, i + 1, end,
                              IF RLess(maxVal, val) THEN val ELSE maxVal)

\* calculatePeak
RECURSIVE PeakLoop(_, _, _, _)
PeakLoop(samples, i, end, maxVal) ==
    IF i >= end THEN maxVal
    ELSE LET val == RAbs(Normalized(samples, i))
         IN  PeakLoop(samples, i + 1, end, IF RLess(maxVal, val) THEN val ELSE maxVal)

calculatePeak(samples, start, end) ==
    IF end <= start THEN Zero ELSE Exact(PeakLoop(samples, start, end, RZero))

\* calculateRMS: the loop unrolled by 8, then the remaining samples
Square(samples, i) == LET val == Normalized(samples, i) IN RMul(val, val)

\* variant: val1*val1 left out of the unrolled sum
RECURSIVE SquareRunShort(_, _, _)
SquareRunShort(samples, i, k) ==
    IF k <= 1 THEN RZero
    ELSE RAdd(SquareRunShort(samples, i, k - 1), Square(samples, i + k - 1))

RECURSIVE SquareRun(_, _, _)
SquareRun(samples, i, k) ==
    IF k = 0 THEN RZero ELSE RAdd(SquareRun(samples, i, k - 1), Square(samples, i + k - 1))

RECURSIVE RMSRemainder(_, _, _, _)
RMSRemainder(samples, i, end, sum) ==
    IF i >= end THEN sum
    ELSE RMSRemainder(samples, i + 1, end, RAdd(sum, Square(samples, i)))

RECURSIVE RMSUnrolled(_, _, _, _)
RMSUnrolled(samples, i, end, sum) ==
    IF i <= end - 8
    THEN RMSUnrolled(samples, i + 8, end, RAdd(sum, SquareRun(samples, i, 8)))
    ELSE RMSRemainder(samples, i, end, sum)

calculateRMS(samples, start, end) ==
    IF end <= start THEN Zero
    ELSE LET bucketSize == end - start
             sum == RMSUnrolled(samples, start, end, RZero)
         IN  IF bucketSize > 0 THEN fastSqrt(RDivInt(sum, bucketSize)) ELSE Zero

\* calculateVU
RECURSIVE VULoop(_, _, _, _)
VULoop(samples, i, end, sum) ==
    IF i >= end THEN sum
    ELSE VULoop(samples, i + 1, end, RAdd(sum, RMul(Square(samples, i), Rat(8, 10))))

calculateVU(samples, start, end) ==
    IF end <= start THEN Zero
    ELSE LET bucketSize == end - start
             sum == VULoop(samples, start, end, RZero)
             vu == fastSqrt(RDivInt(sum, bucketSize))
         IN  IF bucketSize > 0
             THEN (IF vu = Zero THEN Zero ELSE [vu EXCEPT !.form = "vu"])
             ELSE Zero

\* calculateLUFS
RECURSIVE LUFSLoop(_, _, _, _, _)
LUFSLoop(samples, i, end, sum, prevSample) ==
    IF i >= end THEN sum
    ELSE LET sample == Normalized(samples, i)
             filtered == RSub(sample, RMul(Rat(85, 100), prevSample))
             absFiltered == RAbs(filtered)
             scaled == RMul(RMul(absFiltered, absFiltered),
                            RAdd(ROne, RMul(absFiltered, Rat(1, 2))))
         IN  LUFSLoop(samples, i + 1, end, RAdd(sum, scaled), sample)

\* variant: prevSample carried over from the sample before the bucket
calculateLUFSCarry(samples, start, end) ==
    IF end <= start THEN Zero
    ELSE LET bucketSize == end - start
             before == IF start > 0 THEN Normalized(samples, start - 1) ELSE RZero
             sum == LUFSLoop(samples, start, end, RZero, before)
             meanSquare == RDivInt(sum, bucketSize)
             lufs == fastSqrt(meanSquare)
         IN  IF lufs = Zero THEN Zero
             ELSE IF RLess(Rat(1, 100), meanSquare)
                  THEN [lufs EXCEPT !.form = "lufsLoud"]
                  ELSE [lufs EXCEPT !.form = "lufsQuiet"]

\* variant: the loud branch taken from 0.1 on (lufs >= 0.1)
lufsEnhanceAtLeast(lufs) ==
    IF ~RLess(lufs, Rat(1, 10))
    THEN RMul(RMul(lufs, lufs), <<2, 1>>)
    ELSE RMul(lufs, Rat(1, 2))

\* the dynamic enhancement of calculateLUFS on the value lufs:
\* if lufs > 0.1 { lufs = lufs * lufs * 2.0 } else { lufs = lufs * 0.5 }
lufsEnhance(lufs) ==
    IF RLess(Rat(1, 10), lufs)
    THEN RMul(RMul(lufs, lufs), <<2, 1>>)
    ELSE RMul(lufs, Rat(1, 2))

\* lufs > 0.1, decided on the argument of fastSqrt (sqrt is increasing):
\* fastSqrt(meanSquare) > 0.1 when meanSquare > 0.01
LUFSLoud(meanSquare) == RLess(Rat(1, 100), meanSquare)

calculateLUFS(samples, start, end) ==
    IF end <= start THEN Zero
    ELSE LET bucketSize == end - start
             sum == LUFSLoop(samples, start, end, RZero, RZero)
             meanSquare == RDivInt(sum, bucketSize)
             lufs == fastSqrt(meanSquare)
         IN  IF bucketSize > 0
             THEN (IF lufs = Zero THEN Zero
                   ELSE IF LUFSLoud(meanSquare)
                        THEN [lufs EXCEPT !.form = "lufsLoud"]
                        ELSE [lufs EXCEPT !.form = "lufsQuiet"])
             ELSE Zero

\* calculateDynamic: first pass (mean), second pass (variance and sum)
RECURSIVE DynamicMean(_, _, _, _)
DynamicMean(samples, i, end, mean) ==
    IF i >= end THEN mean
    ELSE DynamicMean(samples, i + 1, end, RAdd(mean, RAbs(Normalized(samples, i))))

RECURSIVE DynamicSecond(_, _, _, _, _, _)
DynamicSecond(samples, i, end, mean, sum, variance) ==
    IF i >= end THEN <<sum, variance>>
    ELSE LET val == RAbs(Normalized(samples, i))
             diff == RSub(val, mean)
         IN  DynamicSecond(samples, i + 1, end, mean,
                           RAdd(sum, RMul(val, val)), RAdd(variance, RMul(diff, diff)))

calculateDynamic(samples, start, end) ==
    IF end <= start THEN Zero
    ELSE LET bucketSize == end - start
             mean == RDivInt(DynamicMean(samples, start, end, RZero), bucketSize)
             acc == DynamicSecond(samples, start, end, mean, RZero, RZero)
             rms == fastSqrt(RDivInt(acc[1], bucketSize))
             dynamicFactor == fastSqrt(RDivInt(acc[2], bucketSize))
         IN  IF bucketSize > 0
             THEN (IF rms = Zero THEN Zero
                   ELSE IF dynamicFactor = Zero THEN rms
                   ELSE Float("dynamic", <<rms.num, rms.den>>,
                              <<(<<dynamicFactor.num, dynamicFactor.den>>)>>))
             ELSE Zero

\* calculateSmooth: smoothedPrev after each sample; sum adds its square
RECURSIVE SmoothLoop(_, _, _, _, _)
SmoothLoop(samples, i, end, smoothedPrev, squared) ==
    IF i >= end THEN squared
    ELSE LET val == RAbs(Normalized(samples, i))
             next == RAdd(RMul(Rat(95, 100), smoothedPrev), RMul(Rat(5, 100), val))
         IN  SmoothLoop(samples, i + 1, end, next, Append(squared, next))

calculateSmooth(samples, start, end) ==
    IF end <= start THEN Zero
    ELSE LET bucketSize == end - start
             squared == SmoothLoop(samples, start, end, RZero, <<>>)
         IN  IF bucketSize > 0
             THEN (IF \A k \in DOMAIN squared : squared[k] = RZero THEN Zero
                   ELSE Float("smooth", <<bucketSize, 1>>, squared))
             ELSE Zero

\* variant: the default branch calls calculateRMS
calculateLoudnessDefaultRMS(samples, start, end, mode) ==
    CASE mode = ModeLUFS -> calculateLUFS(samples, start, end)
      [] mode = ModePeak -> calculatePeak(samples, start, end)
      [] mode = ModeVU -> calculateVU(samples, start, end)
      [] mode = ModeDynamic -> calculateDynamic(samples, start, end)
      [] mode = ModeSmooth -> calculateSmooth(samples, start, end)
      [] OTHER -> calculateRMS(samples, start, end)

\* calculateLoudness: the switch on mode, default LUFS
calculateLoudness(samples, start, end, mode) ==
    CASE mode = ModeRMS -> calculateRMS(samples, start, end)
      [] mode = ModeLUFS -> calculateLUFS(samples, start, end)
      [] mode = ModePeak -> calculatePeak(samples, start, end)
      [] mode = ModeVU -> calculateVU(samples, start, end)
      [] mode = ModeDynamic -> calculateDynamic(samples, start, end)
      [] mode = ModeSmooth -> calculateSmooth(samples, start, end)
      [] OTHER -> calculateLUFS(samples, start, end)

(***************************************************************************)
(* waveform.go: downsample (sequential).                                   *)
(***************************************************************************)
\* a nil slice
Nil == <<>>


\* variant: the slice allocated one element short
MakePeaksShort(buckets) == [b \in 1..(buckets - 1) |-> Zero]

\* make([]float64, buckets)
MakePeaks(buckets) == [b \in 1..buckets |-> Zero]

\* if len(samples) == 0 || buckets == 0 { return nil }
NothingToDo(n, buckets) == n = 0 \/ buckets = 0


\* variant: the remainder spread over the buckets (division rounded up)
samplesPerBucketCeil(n, buckets) ==
    LET q == (n + buckets - 1) \div buckets IN IF q = 0 THEN 1 ELSE q

\* samplesPerBucket := len(samples) / buckets, 1 when that is 0
samplesPerBucket(n, buckets) ==
    LET q == n \div buckets IN IF q = 0 THEN 1 ELSE q

\* start := bucket * samplesPerBucket
BucketStart(bucket, perBucket) == bucket * perBucket


\* variant: the end not limited to len(samples)
BucketEndUnclamped(bucket, perBucket, n) == bucket * perBucket + perBucket

\* end := start + samplesPerBucket; if end > len(samples) { end = len(samples) }
BucketEnd(bucket, perBucket, n) ==
    LET end == BucketStart(bucket, perBucket) + perBucket
    IN  IF end > n THEN n ELSE end

\* an index expression samples[i] panics when i is outside [0, len(samples))
OutOfRange(n, indices) == \E i \in indices : i < 0 \/ i >= n

\* the arguments (bucket, start, end) of the calls of calculateLoudness made
\* by the loop of downsample
DownsampleCalls(n, buckets) ==
    LET perBucket == samplesPerBucket(n, buckets)
    IN  {<<bucket, BucketStart(bucket, perBucket), BucketEnd(bucket, perBucket, n)>> :
           bucket \in 0..(buckets - 1)}

CallReads(calls) == UNION {ReadIndices(c[2], c[3]) : c \in calls}

\* for bucket := 0; bucket < buckets; bucket++ { peaks[bucket] = ... }:
\* the iterations from bucket on assign one element of peaks each and read
\* none, so the loop is written element by element
DownsampleLoop(samples, buckets, mode, perBucket, bucket, peaks) ==
    [k \in 1..Len(peaks) |->
        IF bucket <= k - 1 /\ k - 1 < buckets
        THEN calculateLoudness(samples, BucketStart(k - 1, perBucket),
                               BucketEnd(k - 1, perBucket, Len(samples)), mode)
        ELSE peaks[k]]

downsample(samples, buckets, mode) ==
    IF NothingToDo(Len(samples), buckets) THEN Nil
    ELSE DownsampleLoop(samples, buckets, mode,
                        samplesPerBucket(Len(samples), buckets), 0, MakePeaks(buckets))

(***************************************************************************)
(* waveform.go: downsampleConcurrent, the parts computed before and inside *)
(* the goroutines.                                                         *)
(***************************************************************************)

\* variant: the quotient used as it is, also when it is 0
samplesPerBucketUnclamped(n, buckets) == n \div buckets

\* variant: one more sample per bucket than the quotient
samplesPerBucketWithTail(n, buckets) == n \div buckets + 1

\* samplesPerBucket of downsampleConcurrent
samplesPerBucketConcurrent(n, buckets) ==
    LET q == n \div buckets IN IF q = 0 THEN 1 ELSE q


\* variant: the small-dataset test left out
SmallDatasetNever(n) == FALSE

\* if len(samples) < 50000 { return downsample(samples, buckets, mode) }
SmallDataset(n) == n < SmallDatasetLimit

\* variant: the quotient rounded up
bucketsPerWorkerCeil(buckets, cpus) == (buckets + cpus - 1) \div cpus

\* variant: the worker count left at runtime.NumCPU()
numWorkersUnclamped(buckets, cpus) == cpus

\* bucketsPerWorker := buckets / numWorkers, 1 when that is 0
bucketsPerWorkerOf(buckets, cpus) ==
    LET q == buckets \div cpus IN IF q = 0 THEN 1 ELSE q

\* numWorkers := runtime.NumCPU(), buckets when bucketsPerWorker was 0
numWorkersOf(buckets, cpus) ==
    IF buckets \div cpus = 0 THEN buckets ELSE cpus


\* variant: the worker index not multiplied by bucketsPerWorker
startBucketUnscaled(workerID, perWorker) == workerID

\* startBucket := workerID * bucketsPerWorker
startBucketOf(workerID, perWorker) == workerID * perWorker


\* variant: the last worker given bucketsPerWorker buckets like the others
endBucketNoRemainder(workerID, perWorker, workers, buckets) ==
    workerID * perWorker + perWorker

\* endBucket := startBucket + bucketsPerWorker; the last worker takes the rest
endBucketOf(workerID, perWorker, workers, buckets) ==
    IF workerID = workers - 1 THEN buckets
    ELSE startBucketOf(workerID, perWorker) + perWorker

\* variant: every range moved up by one bucket
startSampleShifted(bucket, perBucket) == (bucket + 1) * perBucket

\* startSample := bucket * samplesPerBucket
startSampleOf(bucket, perBucket) == bucket * perBucket


\* variant: the end limited to len(samples) + 1
endSampleOffByOne(bucket, perBucket, n) ==
    LET endSample == bucket * perBucket + perBucket
    IN  IF endSample > n + 1 THEN n + 1 ELSE endSample

\* endSample := startSample + samplesPerBucket, at most len(samples)
endSampleOf(bucket, perBucket, n) ==
    LET endSample == startSampleOf(bucket, perBucket) + perBucket
    IN  IF endSample > n THEN n ELSE endSample


\* variant: the index counted from the worker's first bucket
WriteIndexLocal(bucket, startBucket) == bucket - startBucket

\* the index of peaks a goroutine assigns for its loop variable bucket
WriteIndex(bucket, startBucket) == bucket


\* variant: no wait for the counter
WaitNotBlocking(counter) == TRUE

\* wg.Wait() returns when the counter is 0
WaitReleased(counter) == counter = 0

(***************************************************************************)
(* waveform.go: Config, DefaultConfig, UpdateConfig.                       *)
(***************************************************************************)
\* the Config that DefaultConfig() builds (CornerRadius 8.0 as a rational)
DefaultConfig ==
    [Width |-> 500, Height |-> 80, Bars |-> 100, BarSpacing |-> 2,
     BarColor |-> "#3B82F6", CornerRadius |-> <<8, 1>>, Concurrent |-> TRUE,
     Mode |-> ModeDynamic]

\* variant: a nil config replaced by &Config{}
NilConfigZero ==
    [Width |-> 0, Height |-> 0, Bars |-> 0, BarSpacing |-> 0, BarColor |-> "",
     CornerRadius |-> <<0, 1>>, Concurrent |-> FALSE, Mode |-> ""]

\* if config == nil { config = DefaultConfig() }
NilConfig == DefaultConfig

\* variant: the nil test on samples left out
ShouldRegenerateAlways(oldMode, newMode, provided) == oldMode # newMode

\* if oldMode != config.Mode && samples != nil
ShouldRegenerate(oldMode, newMode, provided) == oldMode # newMode /\ provided

\* variant: the samples of the range scaled in place (samples[i] /= 2)
SamplesHalved(s, start, end) ==
    [i \in DOMAIN s |-> IF (i - 1) \in ReadIndices(start, end) THEN s[i] \div 2 ELSE s[i]]

\* the caller's slice after calculateLoudness(samples, start, end, mode): no
\* calculator assigns to samples[i]
SamplesAfterCalculate(s, start, end) == s

\* the caller's slice after the bucket loop of downsample
SamplesAfterLoopOf[s \in Seq(Int), n \in Nat, buckets \in Nat, perBucket \in Nat,
                   bucket \in Nat] ==
    IF bucket >= buckets THEN s
    ELSE SamplesAfterLoopOf[
            SamplesAfterCalculate(s, BucketStart(bucket, perBucket),
                                  BucketEnd(bucket, perBucket, n)),
            n, buckets, perBucket, bucket + 1]
SamplesAfterLoop(s, n, buckets, perBucket, bucket) ==
    SamplesAfterLoopOf[s, n, buckets, perBucket, bucket]

SamplesAfterDownsample(s, buckets) ==
    IF NothingToDo(Len(s), buckets) THEN s
    ELSE SamplesAfterLoop(s, Len(s), buckets, samplesPerBucket(Len(s), buckets), 0)

\* variant: no wg.Done()
AfterDoneMissing(counter) == counter

\* defer wg.Done()
AfterDone(counter) == counter - 1

(***************************************************************************)
(* State.                                                                  *)
(***************************************************************************)
VARIABLES
    samples,            \* the caller's []int16
    config,             \* the Config the current call was given, as the call reads it
    pc,                 \* "idle", "spawn", "wait", "done", "panic", "calc", "calculated"
    w,                  \* the *Waveform: Peaks and Config (an address), Nil before the return
    path,               \* which path ran: "none", "empty", "sequential", "parallel"
    peaks,              \* downsampleConcurrent: the shared output slice
    perBucket,          \* downsampleConcurrent: samplesPerBucket
    numWorkers,         \* downsampleConcurrent: numWorkers
    bucketsPerWorker,   \* downsampleConcurrent: bucketsPerWorker
    worker,             \* downsampleConcurrent: the loop variable worker
    wg,                 \* the WaitGroup counter
    wpc,                \* per goroutine: "none", "run", "done"
    wbucket,            \* per goroutine: its loop variable bucket
    calls,              \* history: <<bucket, start, end>> passed to calculateLoudness
    reads,              \* history: the sample indices read
    writes,             \* history: <<workerID, index>> for every assignment to peaks
    heap,               \* the Config objects: heap[a] is the Config at address a
    cfgPtr,             \* the *Config the current call was given
    call,               \* history of the current call: see NoCall
    steps,              \* number of caller steps after NewFromSamples
    fresh,              \* the address DefaultConfig() returned in the last step, else 0
    calc,               \* a direct call of calculateLoudness: start, end, result
    numCPU,             \* downsampleConcurrent: what runtime.NumCPU() returned, else 0
    twin,               \* a second run on a slice of equal length: samples, peaks
    fname,              \* NewFromAudioFile: the extension of filename
    file,               \* the *os.File: "none", "open" or "closed"
    dec,                \* the AudioDecoder NewAudioDecoder returned, Nil for nil
    err,                \* the error the last audio call returned, "nil" for nil
    pcm,                \* readSamplesFromFormat: the slice pcm
    delivered           \* history: the samples of every chunk Read has delivered

vars == <<samples, config, pc, w, path, peaks, perBucket, numWorkers,
          bucketsPerWorker, worker, wg, wpc, wbucket, calls, reads, writes,
          heap, cfgPtr, call, steps, fresh, calc,
          numCPU, twin, fname, file, dec, err, pcm, delivered>>

locals == <<peaks, perBucket, numWorkers, bucketsPerWorker, worker, wg, wpc, wbucket,
            numCPU>>

audioVars == <<fname, file, dec, err, pcm, delivered>>

WorkerIDs == 0..(MaxCPU - 1)

RECURSIVE SeqsUpTo(_)
SeqsUpTo(n) == IF n = 0 THEN {<<>>} ELSE SeqsUpTo(n - 1) \cup [1..n -> SampleValues]

\* the Configs drawn: Bars, Mode and Concurrent vary, the fields only the
\* renderer reads keep their defaults
Configs ==
    {[DefaultConfig EXCEPT !.Bars = b, !.Mode = m, !.Concurrent = c] :
        b \in 0..MaxBars, m \in Modes, c \in BOOLEAN}

\* op: "none", "new" (NewFromSamples) or "update" (UpdateConfig);
\* provided: the samples argument of UpdateConfig was not nil;
\* regenerated: the call has assigned Peaks;
\* oldPeaks, oldMode: w.Peaks and w.Config.Mode when UpdateConfig was entered;
\* clean: every UpdateConfig call so far was given samples and the caller
\*        has not written to the Config the Waveform holds
NoCall ==
    [op |-> "none", provided |-> FALSE, regenerated |-> FALSE,
     oldPeaks |-> Nil, oldMode |-> "", clean |-> TRUE]

NewCall == [NoCall EXCEPT !.op = "new", !.provided = TRUE]

NoCalc == [start |-> 0, end |-> 0, result |-> Zero, base |-> RZero]

NoWorkers ==
    /\ peaks = Nil
    /\ perBucket = 0
    /\ numWorkers = 0
    /\ bucketsPerWorker = 0
    /\ worker = 0
    /\ wg = 0
    /\ wpc = [id \in WorkerIDs |-> "none"]
    /\ wbucket = [id \in WorkerIDs |-> 0]
    /\ numCPU = 0

\* no second run and no audio file
NoTwin == [samples |-> <<>>, peaks |-> <<>>]

\* the file on disk (the frames of its stream and how the stream ends) and
\* the state of the *os.File handle: "none", "open" or "closed"
NoFile == [handle |-> "none", frames |-> <<>>, ending |-> "EOF"]

NoAudio ==
    /\ fname = ""
    /\ file = NoFile
    /\ dec = <<>>
    /\ err = "nil"
    /\ pcm = <<>>
    /\ delivered = <<>>

Init ==
    /\ samples \in SeqsUpTo(MaxSamples)
    /\ config \in Configs
    /\ heap = <<config>>
    /\ cfgPtr = 1
    /\ pc = "idle"
    /\ w = Nil
    /\ path = "none"
    /\ NoWorkers
    /\ calls = {}
    /\ reads = {}
    /\ writes = {}
    /\ call = NoCall
    /\ steps = 0
    /\ fresh = 0
    /\ calc = NoCalc
    /\ twin = NoTwin
    /\ NoAudio

\* a call that starts no goroutine leaves no goroutine state behind
ResetWorkers ==
    /\ peaks' = Nil
    /\ perBucket' = 0
    /\ numWorkers' = 0
    /\ bucketsPerWorker' = 0
    /\ worker' = 0
    /\ wg' = 0
    /\ wpc' = [id \in WorkerIDs |-> "none"]
    /\ wbucket' = [id \in WorkerIDs |-> 0]
    /\ numCPU' = 0

\* return &Waveform{Peaks: p, Config: config}; w.Peaks = p in UpdateConfig,
\* which has assigned w.Config before
Return(p, how, addr) ==
    /\ w' = [Peaks |-> p, Config |-> addr]
    /\ path' = how
    /\ pc' = "done"

\* the whole of downsample(samples, cfg.Bars, cfg.Mode) in the call c given
\* the Config at addr, and the return of its result
RunDownsample(cfg, addr, c) ==
    LET n == Len(samples)
        made == IF NothingToDo(n, cfg.Bars) THEN {} ELSE DownsampleCalls(n, cfg.Bars)
    IN  /\ calls' = made
        /\ reads' = CallReads(made)
        /\ writes' = {}
        /\ samples' = SamplesAfterDownsample(samples, cfg.Bars)
        /\ cfgPtr' = addr
        /\ config' = cfg
        /\ IF OutOfRange(n, CallReads(made))
           THEN /\ pc' = "panic"
                /\ call' = c
                /\ w' = IF c.op = "update" THEN [w EXCEPT !.Config = addr] ELSE w
                /\ UNCHANGED path
           ELSE /\ Return(downsample(samples, cfg.Bars, cfg.Mode),
                          IF NothingToDo(n, cfg.Bars) THEN "empty" ELSE "sequential",
                          addr)
                /\ call' = [c EXCEPT !.regenerated = TRUE]
        /\ ResetWorkers

\* downsampleConcurrent(samples, cfg.Bars, cfg.Mode) up to the first go
\* statement, or to its return when it starts no goroutine
RunDownsampleConcurrent(cfg, addr, c) ==
    IF NothingToDo(Len(samples), cfg.Bars) \/ SmallDataset(Len(samples))
    THEN RunDownsample(cfg, addr, c)
    ELSE \E cpus \in 1..MaxCPU :
           /\ perBucket' = samplesPerBucketConcurrent(Len(samples), cfg.Bars)
           /\ peaks' = MakePeaks(cfg.Bars)
           /\ numWorkers' = numWorkersOf(cfg.Bars, cpus)
           /\ bucketsPerWorker' = bucketsPerWorkerOf(cfg.Bars, cpus)
           /\ worker' = 0
           /\ wg' = 0
           /\ wpc' = [id \in WorkerIDs |-> "none"]
           /\ wbucket' = [id \in WorkerIDs |-> 0]
           /\ numCPU' = cpus
           /\ pc' = "spawn"
           /\ path' = "parallel"
           /\ w' = IF c.op = "update" THEN [w EXCEPT !.Config = addr] ELSE w
           /\ call' = c
           /\ cfgPtr' = addr
           /\ config' = cfg
           /\ calls' = {}
           /\ reads' = {}
           /\ writes' = {}
           /\ UNCHANGED samples

\* NewFromSamples with config.Concurrent false
NewFromSamplesSequential ==
    /\ pc = "idle"
    /\ cfgPtr # 0
    /\ ~heap[cfgPtr].Concurrent
    /\ RunDownsample(heap[cfgPtr], cfgPtr, NewCall)
    /\ UNCHANGED <<heap, steps, fresh, calc, twin, audioVars>>

\* NewFromSamples with config.Concurrent true
NewFromSamplesConcurrent ==
    /\ pc = "idle"
    /\ cfgPtr # 0
    /\ heap[cfgPtr].Concurrent
    /\ RunDownsampleConcurrent(heap[cfgPtr], cfgPtr, NewCall)
    /\ UNCHANGED <<heap, steps, fresh, calc, twin, audioVars>>

\* one iteration of the spawning loop: wg.Add(1); go func(workerID){...}(worker)
Spawn ==
    /\ pc = "spawn"
    /\ worker < numWorkers
    /\ wg' = wg + 1
    /\ wpc' = [wpc EXCEPT ![worker] = "run"]
    /\ wbucket' = [wbucket EXCEPT ![worker] = startBucketOf(worker, bucketsPerWorker)]
    /\ worker' = worker + 1
    /\ pc' = IF worker + 1 < numWorkers THEN "spawn" ELSE "wait"
    /\ UNCHANGED <<samples, config, w, path, peaks, perBucket, numWorkers,
                   bucketsPerWorker, numCPU, calls, reads, writes,
                   heap, cfgPtr, call, steps, fresh, calc, twin, audioVars>>

Running(id) == pc \in {"spawn", "wait"} /\ wpc[id] = "run"

\* one iteration of a goroutine's bucket loop, on the slice it was given
WorkerBucketStep(id) ==
    /\ Running(id)
    /\ wbucket[id] < endBucketOf(id, bucketsPerWorker, numWorkers, config.Bars)
    /\ LET bucket == wbucket[id]
           startSample == startSampleOf(bucket, perBucket)
           endSample == endSampleOf(bucket, perBucket, Len(samples))
           index == WriteIndex(bucket, startBucketOf(id, bucketsPerWorker))
       IN  /\ calls' = calls \cup {<<bucket, startSample, endSample>>}
           /\ reads' = reads \cup ReadIndices(startSample, endSample)
           /\ IF \/ OutOfRange(Len(samples), ReadIndices(startSample, endSample))
                 \/ index < 0 \/ index >= Len(peaks)
              THEN pc' = "panic" /\ UNCHANGED <<samples, peaks, writes, wbucket>>
              ELSE /\ peaks' = [peaks EXCEPT ![index + 1] =
                                   calculateLoudness(samples, startSample, endSample,
                                                     config.Mode)]
                   /\ samples' = SamplesAfterCalculate(samples, startSample, endSample)
                   /\ writes' = writes \cup {<<id, index>>}
                   /\ wbucket' = [wbucket EXCEPT ![id] = bucket + 1]
                   /\ pc' = pc
    /\ UNCHANGED <<config, w, path, perBucket, numWorkers, bucketsPerWorker,
                   numCPU, worker, wg, wpc, heap, cfgPtr, call, steps, fresh, calc,
                   audioVars>>

WorkerBucket(id) == WorkerBucketStep(id) /\ UNCHANGED twin

\* a goroutine leaves its loop and runs the deferred wg.Done()
WorkerDone(id) ==
    /\ Running(id)
    /\ wbucket[id] >= endBucketOf(id, bucketsPerWorker, numWorkers, config.Bars)
    /\ wpc' = [wpc EXCEPT ![id] = "done"]
    /\ wg' = AfterDone(wg)
    /\ UNCHANGED <<samples, config, pc, w, path, peaks, perBucket, numWorkers,
                   bucketsPerWorker, numCPU, worker, wbucket, calls, reads, writes,
                   heap, cfgPtr, call, steps, fresh, calc, twin, audioVars>>

\* wg.Wait() returns; return peaks
Wait ==
    /\ pc = "wait"
    /\ WaitReleased(wg)
    /\ Return(peaks, path, cfgPtr)
    /\ call' = [call EXCEPT !.regenerated = TRUE]
    /\ UNCHANGED <<samples, config, locals, calls, reads, writes,
                   heap, cfgPtr, steps, fresh, calc, twin, audioVars>>

Next ==
    \/ NewFromSamplesSequential
    \/ NewFromSamplesConcurrent
    \/ Spawn
    \/ \E id \in WorkerIDs : WorkerBucket(id)
    \/ \E id \in WorkerIDs : WorkerDone(id)
    \/ Wait

Spec == Init /\ [][Next]_vars

(***************************************************************************)
(* The life of one Waveform: NewFromSamples, then the caller's steps:      *)
(* UpdateConfig calls and assignments to the fields of its Config objects. *)
(***************************************************************************)
MaxCallerSteps == 2

\* w.UpdateConfig(config, samples) with config = the object at addr;
\* provided = FALSE passes nil for samples, TRUE passes the slice again
UpdateConfig(addr, provided) ==
    /\ pc = "done"
    /\ steps < MaxCallerSteps
    /\ LET cfg == heap[addr]
           oldMode == heap[w.Config].Mode
           c == [op |-> "update", provided |-> provided, regenerated |-> FALSE,
                 oldPeaks |-> w.Peaks, oldMode |-> oldMode,
                 clean |-> call.clean /\ provided]
       IN  IF ShouldRegenerate(oldMode, cfg.Mode, provided)
           THEN IF cfg.Concurrent
                THEN RunDownsampleConcurrent(cfg, addr, c)
                ELSE RunDownsample(cfg, addr, c)
           ELSE /\ w' = [w EXCEPT !.Config = addr]
                /\ call' = c
                /\ cfgPtr' = addr
                /\ config' = cfg
                /\ UNCHANGED <<samples, pc, path, locals, calls, reads, writes>>
    /\ steps' = steps + 1
    /\ UNCHANGED <<heap, fresh, calc, twin, audioVars>>

\* the Configs one assignment to a field of c gives
FieldChanges(c) ==
    ({[c EXCEPT !.Width = v] : v \in {500, 800}}
        \cup {[c EXCEPT !.Height = v] : v \in {80, 120}}
        \cup {[c EXCEPT !.Bars = v] : v \in {2, MaxBars}}
        \cup {[c EXCEPT !.BarSpacing = v] : v \in {2, 4}}
        \cup {[c EXCEPT !.BarColor = v] : v \in {"#3B82F6", "#FF0000"}}
        \cup {[c EXCEPT !.CornerRadius = v] : v \in {<<8, 1>>, <<0, 1>>}}
        \cup {[c EXCEPT !.Concurrent = v] : v \in BOOLEAN}
        \cup {[c EXCEPT !.Mode = v] : v \in {ModeDynamic, ModePeak}}) \ {c}

\* the caller assigns to one field through a *Config it holds: cfg.Bars = 5
SetField(addr) ==
    /\ pc \in {"done", "caller"}
    /\ steps < MaxCallerSteps
    /\ \E c \in FieldChanges(heap[addr]) : heap' = [heap EXCEPT ![addr] = c]
    /\ call' = [call EXCEPT !.clean = call.clean /\ (w = Nil \/ addr # w.Config)]
    /\ steps' = steps + 1
    /\ fresh' = 0
    /\ UNCHANGED <<samples, config, pc, w, path, locals, calls, reads, writes,
                   cfgPtr, calc, twin, audioVars>>

LifeSeq(n) == [i \in 1..n |-> IF i % 2 = 1 THEN -32768 ELSE 16384]

LifeConfigs ==
    {[DefaultConfig EXCEPT !.Bars = b, !.Mode = m, !.Concurrent = c] :
        b \in {2, MaxBars}, m \in {ModeDynamic, ModePeak}, c \in BOOLEAN}

\* the caller holds two Config objects of equal content and passes the first
LifeInit ==
    /\ samples \in {LifeSeq(SmallDatasetLimit - 1), LifeSeq(MaxSamples)}
    /\ config \in LifeConfigs
    /\ heap = <<config, config>>
    /\ cfgPtr = 1
    /\ pc = "idle"
    /\ w = Nil
    /\ path = "none"
    /\ NoWorkers
    /\ calls = {}
    /\ reads = {}
    /\ writes = {}
    /\ call = NoCall
    /\ steps = 0
    /\ fresh = 0
    /\ calc = NoCalc
    /\ twin = NoTwin
    /\ NoAudio

LifeNext ==
    \/ Next
    \/ \E addr \in DOMAIN heap : \E provided \in BOOLEAN : UpdateConfig(addr, provided)
    \/ \E addr \in DOMAIN heap : SetField(addr)

LifeSpec == LifeInit /\ [][LifeNext]_vars

(***************************************************************************)
(* One generation run under the Go scheduler: the calling goroutine and    *)
(* every started goroutine keep running while they can take a step.        *)
(***************************************************************************)
LiveInit ==
    /\ Init
    /\ samples \in {LifeSeq(n) : n \in 0..MaxSamples}

LiveSpec ==
    /\ LiveInit
    /\ [][Next]_vars
    /\ WF_vars(NewFromSamplesSequential \/ NewFromSamplesConcurrent \/ Spawn \/ Wait)
    /\ \A id \in WorkerIDs : WF_vars(WorkerBucket(id) \/ WorkerDone(id))

(***************************************************************************)
(* The caller builds Configs: DefaultConfig() calls and assignments to the *)
(* fields of the objects they return.                                      *)
(***************************************************************************)
MaxObjects == 2

\* variant: one package-level object handed out by every call
SharedObject(objects) == 1

\* &Config{...}: the address of a newly allocated object
NewObject(objects) == Len(objects) + 1

\* cfg := DefaultConfig()
DefaultConfigCall ==
    /\ pc = "caller"
    /\ Len(heap) < MaxObjects
    /\ LET addr == NewObject(heap)
       IN  /\ heap' = IF addr > Len(heap) THEN Append(heap, DefaultConfig) ELSE heap
           /\ fresh' = addr
    /\ UNCHANGED <<samples, config, pc, w, path, locals, calls, reads, writes,
                   cfgPtr, call, steps, calc, twin, audioVars>>

ConfigInit ==
    /\ samples = <<>>
    /\ config = DefaultConfig
    /\ heap = <<>>
    /\ cfgPtr = 0
    /\ pc = "caller"
    /\ w = Nil
    /\ path = "none"
    /\ NoWorkers
    /\ calls = {}
    /\ reads = {}
    /\ writes = {}
    /\ call = NoCall
    /\ steps = 0
    /\ fresh = 0
    /\ calc = NoCalc
    /\ twin = NoTwin
    /\ NoAudio

ConfigNext ==
    \/ DefaultConfigCall
    \/ \E addr \in DOMAIN heap : SetField(addr)

ConfigSpec == ConfigInit /\ [][ConfigNext]_vars

(***************************************************************************)
(* calculateLoudness called directly on one range, as TestCalculationModes *)
(* calls it.                                                               *)
(***************************************************************************)
CalcLen == 4
CalcValues == {-32768, 0, 16384}
CalcModes == Modes \cup {""}

RECURSIVE CalcSeqs(_)
CalcSeqs(n) == IF n = 0 THEN {<<>>} ELSE CalcSeqs(n - 1) \cup [1..n -> CalcValues]

CalcInit ==
    /\ samples \in CalcSeqs(CalcLen)
    /\ config \in {[DefaultConfig EXCEPT !.Mode = m] : m \in CalcModes}
    /\ calc \in {[start |-> a, end |-> b, result |-> Zero, base |-> RZero] :
                    a \in 0..Len(samples), b \in 0..Len(samples)}
    /\ heap = <<config>>
    /\ cfgPtr = 1
    /\ pc = "calc"
    /\ w = Nil
    /\ path = "none"
    /\ NoWorkers
    /\ calls = {}
    /\ reads = {}
    /\ writes = {}
    /\ call = NoCall
    /\ steps = 0
    /\ fresh = 0
    /\ twin = NoTwin
    /\ NoAudio

\* calculateLoudness(samples, calc.start, calc.end, config.Mode)
Calculate ==
    /\ pc = "calc"
    /\ calc' = [calc EXCEPT !.result =
                    calculateLoudness(samples, calc.start, calc.end, config.Mode)]
    /\ samples' = SamplesAfterCalculate(samples, calc.start, calc.end)
    /\ reads' = ReadIndices(calc.start, calc.end)
    /\ pc' = "calculated"
    /\ UNCHANGED <<config, w, path, locals, calls, writes, heap, cfgPtr, call,
                   steps, fresh, twin, audioVars>>

CalcNext == Calculate

CalcSpec == CalcInit /\ [][CalcNext]_vars

(***************************************************************************)
(* calculateRMS on ranges long enough for the unrolled loop to run once,   *)
(* twice, and to leave a remainder.  Each slice is 16384 everywhere but    *)
(* for at most one index, which holds -32768.                              *)
(***************************************************************************)
RMSLen == 17

RMSSeqs(n) ==
    {[i \in 1..n |-> IF i = k THEN -32768 ELSE 16384] : k \in 0..n}

RMSInit ==
    /\ samples \in UNION {RMSSeqs(n) : n \in 0..RMSLen}
    /\ config = [DefaultConfig EXCEPT !.Mode = ModeRMS]
    /\ calc \in {[start |-> a, end |-> b, result |-> Zero, base |-> RZero] :
                    a \in 0..Len(samples), b \in 0..Len(samples)}
    /\ heap = <<config>>
    /\ cfgPtr = 1
    /\ pc = "calc"
    /\ w = Nil
    /\ path = "none"
    /\ NoWorkers
    /\ calls = {}
    /\ reads = {}
    /\ writes = {}
    /\ call = NoCall
    /\ steps = 0
    /\ fresh = 0
    /\ twin = NoTwin
    /\ NoAudio

RMSSpec == RMSInit /\ [][CalcNext]_vars

(***************************************************************************)
(* The last step of calculateLUFS on its own: lufs is the value returned   *)
(* by fastSqrt for a non-empty bucket, drawn from the thousandths up to    *)
(* MaxMilli/1000, the threshold 0.1 among them.                            *)
(***************************************************************************)
MaxMilli == 200

LufsInit ==
    /\ samples = <<>>
    /\ config = [DefaultConfig EXCEPT !.Mode = ModeLUFS]
    /\ calc \in {[NoCalc EXCEPT !.base = Rat(k, 1000)] : k \in 0..MaxMilli}
    /\ heap = <<config>>
    /\ cfgPtr = 1
    /\ pc = "lufs"
    /\ w = Nil
    /\ path = "none"
    /\ NoWorkers
    /\ calls = {}
    /\ reads = {}
    /\ writes = {}
    /\ call = NoCall
    /\ steps = 0
    /\ fresh = 0
    /\ twin = NoTwin
    /\ NoAudio

\* calculateLUFS from "lufs := fastSqrt(meanSquare)" to "return lufs"
Enhance ==
    /\ pc = "lufs"
    /\ calc' = [calc EXCEPT !.result = Exact(lufsEnhance(calc.base))]
    /\ pc' = "enhanced"
    /\ UNCHANGED <<samples, config, w, path, locals, calls, reads, writes, heap,
                   cfgPtr, call, steps, fresh, twin, audioVars>>

LufsNext == Enhance

LufsSpec == LufsInit /\ [][LufsNext]_vars

(***************************************************************************)
(* Two runs of NewFromSamples side by side, with the same Config and the   *)
(* same scheduling, on two slices of equal length: samples and             *)
(* twin.samples.  twin.peaks is what the second run has computed.          *)
(***************************************************************************)
PairLen == 4

\* the second slice: any of the length of the first
Twins(first) ==
    {[samples |-> t, peaks |-> Nil] : t \in [1..Len(first) -> SampleValues]}

PairStart ==
    /\ twin \in Twins(samples)
    /\ heap = <<config>>
    /\ cfgPtr = 1
    /\ pc = "idle"
    /\ w = Nil
    /\ path = "none"
    /\ NoWorkers
    /\ calls = {}
    /\ reads = {}
    /\ writes = {}
    /\ call = NoCall
    /\ steps = 0
    /\ fresh = 0
    /\ calc = NoCalc
    /\ NoAudio

\* every pair of slices, sequential path
PairInit ==
    /\ samples \in SeqsUpTo(PairLen)
    /\ config \in {c \in Configs : ~c.Concurrent}
    /\ PairStart

\* every second slice for one first slice of each length, both paths
TailInit ==
    /\ samples \in {LifeSeq(n) : n \in 0..PairLen}
    /\ config \in Configs
    /\ PairStart

\* both runs of NewFromSamples with config.Concurrent false
PairSequential ==
    /\ pc = "idle"
    /\ ~heap[cfgPtr].Concurrent
    /\ RunDownsample(heap[cfgPtr], cfgPtr, NewCall)
    /\ twin' = [twin EXCEPT !.peaks =
                    downsample(twin.samples, heap[cfgPtr].Bars, heap[cfgPtr].Mode)]
    /\ UNCHANGED <<heap, steps, fresh, calc, audioVars>>

\* both runs of NewFromSamples with config.Concurrent true, up to the first
\* go statement or to the return
PairConcurrent ==
    /\ pc = "idle"
    /\ heap[cfgPtr].Concurrent
    /\ RunDownsampleConcurrent(heap[cfgPtr], cfgPtr, NewCall)
    /\ twin' = [twin EXCEPT !.peaks =
                    IF pc' = "spawn"
                    THEN MakePeaks(heap[cfgPtr].Bars)
                    ELSE downsample(twin.samples, heap[cfgPtr].Bars, heap[cfgPtr].Mode)]
    /\ UNCHANGED <<heap, steps, fresh, calc, audioVars>>

\* the same iteration of the same goroutine in both runs
PairWorkerBucket(id) ==
    /\ WorkerBucketStep(id)
    /\ LET bucket == wbucket[id]
           startSample == startSampleOf(bucket, perBucket)
           endSample == endSampleOf(bucket, perBucket, Len(twin.samples))
           index == WriteIndex(bucket, startBucketOf(id, bucketsPerWorker))
       IN  twin' = IF pc' = "panic" THEN twin
                   ELSE [twin EXCEPT !.peaks[index + 1] =
                            calculateLoudness(twin.samples, startSample, endSample,
                                              config.Mode)]

PairNext == PairSequential

PairSpec == PairInit /\ [][PairNext]_vars

TailNext ==
    \/ PairSequential
    \/ PairConcurrent
    \/ Spawn
    \/ \E id \in WorkerIDs : PairWorkerBucket(id)
    \/ \E id \in WorkerIDs : WorkerDone(id)
    \/ Wait

TailSpec == TailInit /\ [][TailNext]_vars

(***************************************************************************)
(* audio.go: DetectFormat, NewAudioDecoder, the decoders' Read and         *)
(* readSamplesFromFormat; waveform.go: NewFromAudioFile.                   *)
(* An error is "nil", "EOF" (io.EOF), "open" (os.Open), "parse" (a         *)
(* library's parser), "invalid" (IsValidFile), "unsupported" or "read"     *)
(* (any other error of a Read).                                            *)
(***************************************************************************)
FormatMP3 == "MP3"
FormatWAV == "WAV"
FormatFLAC == "FLAC"
FormatOGG == "OGG"
FormatAIFF == "AIFF"
FormatOpus == "Opus"
FormatUnknown == "Unknown"

Files ==
    {"a.mp3", "a.MP3", "a.wav", "a.flac", "a.ogg", "a.aiff", "a.aif", "a.opus",
     "a.txt", "a"}

\* filepath.Ext
Ext(filename) ==
    CASE filename = "a.mp3" -> ".mp3"
      [] filename = "a.MP3" -> ".MP3"
      [] filename = "a.wav" -> ".wav"
      [] filename = "a.flac" -> ".flac"
      [] filename = "a.ogg" -> ".ogg"
      [] filename = "a.aiff" -> ".aiff"
      [] filename = "a.aif" -> ".aif"
      [] filename = "a.opus" -> ".opus"
      [] filename = "a.txt" -> ".txt"
      [] OTHER -> ""

\* strings.ToLower on the extensions above
ToLower(ext) == IF ext = ".MP3" THEN ".mp3" ELSE ext

DetectFormat(filename) ==
    LET ext == ToLower(Ext(filename))
    IN  CASE ext = ".mp3" -> FormatMP3
          [] ext = ".wav" -> FormatWAV
          [] ext = ".flac" -> FormatFLAC
          [] ext = ".ogg" -> FormatOGG
          [] ext \in {".aiff", ".aif"} -> FormatAIFF
          [] ext = ".opus" -> FormatOpus
          [] OTHER -> FormatUnknown

\* the decoders that keep frames in a buffer: FLACDecoder and OpusDecoder
Framed(format) == format \in {FormatFLAC, FormatOpus}

NoDecoder == <<>>

\* &XDecoder{...}: reads counts the Read calls made on it
NewDecoder(format, frames, ending) ==
    [format |-> format, stream |-> frames, ending |-> ending, buffer |-> <<>>,
     pos |-> 0, finished |-> FALSE, reads |-> 0]

\* NewAudioDecoder after os.Open succeeded: parsed is the outcome of
\* mp3.NewDecoder, IsValidFile, flac.Parse or oggvorbis.NewReader, second
\* that of oggvorbis.GetFormat
Created(format, parsed, second) ==
    CASE format = FormatOpus -> TRUE
      [] format = FormatOGG -> parsed /\ second
      [] format \in {FormatMP3, FormatWAV, FormatFLAC, FormatAIFF} -> parsed
      [] OTHER -> FALSE

CreationError(format) ==
    CASE format \in {FormatWAV, FormatAIFF} -> "invalid"
      [] format = FormatUnknown -> "unsupported"
      [] OTHER -> "parse"

\* variant: no file.Close() when oggvorbis.GetFormat fails
HandleLeftOpen(format, parsed) ==
    IF format = FormatOGG /\ parsed THEN "open" ELSE "closed"

\* every error return after os.Open is preceded by file.Close()
HandleAfterFailure(format, parsed) == "closed"

\* int16(v): the low 16 bits of v as a signed number
Int16(v) == LET u == v % 65536 IN IF u >= 32768 THEN u - 65536 ELSE u

\* buf[k] = byte(sample); buf[k+1] = byte(sample >> 8)
ToBytes(sample) == LET u == sample % 65536 IN <<u % 256, u \div 256>>

RECURSIVE BytesOf(_)
BytesOf(chunk) ==
    IF chunk = <<>> THEN <<>> ELSE ToBytes(Head(chunk)) \o BytesOf(Tail(chunk))

\* samples := make([]int16, n/2);
\* for i := 0; i < n-1; i += 2 { samples[i/2] = int16(buf[i]) | int16(buf[i+1])<<8 }
FromBytes(buf, n) ==
    [k \in 1..(n \div 2) |-> Int16(buf[2 * k - 1] + Int16(buf[2 * k] * 256))]

\* len(buf) of readSamplesFromFormat (bufferSize = 32768), scaled
BufBytes == 4
MaxFrames == 2
MaxFrameLen == 3
MaxReads == 3

\* the samples a file holds from position offset on: -32768, 16384, ...
Pattern(offset, k) ==
    [i \in 1..k |-> IF (offset + i) % 2 = 1 THEN -32768 ELSE 16384]

RECURSIVE FramesOf(_, _)
FramesOf(lens, offset) ==
    IF lens = <<>> THEN <<>>
    ELSE <<Pattern(offset, Head(lens))>>
            \o FramesOf(Tail(lens), offset + Head(lens))

Streams ==
    {FramesOf(lens, 0) : lens \in UNION {[1..k -> 1..MaxFrameLen] : k \in 0..MaxFrames}}

\* the loop of FLACDecoder.Read and OpusDecoder.Read: out is buf[0:bytesWritten]
RECURSIVE FramedFill(_, _)
FramedFill(d, out) ==
    IF ~(Len(out) < BufBytes - 1) THEN [bytes |-> out, err |-> "nil", dec |-> d]
    ELSE IF d.pos >= Len(d.buffer)
         THEN IF d.stream = <<>>
              THEN [bytes |-> out, err |-> d.ending,
                    dec |-> [d EXCEPT !.finished = (d.ending = "EOF")]]
              ELSE FramedFill([d EXCEPT !.buffer = Head(d.stream), !.pos = 0,
                                        !.stream = Tail(d.stream)], out)
         ELSE FramedFill([d EXCEPT !.pos = d.pos + 1],
                         out \o ToBytes(Int16(d.buffer[d.pos + 1])))

FramedRead(d) ==
    IF d.finished THEN [bytes |-> <<>>, err |-> "EOF", dec |-> d]
    ELSE FramedFill(d, <<>>)

\* what a library call can give to a Read: k samples and an error; after
\* MaxReads - 1 calls it gives no further samples without ending
LibraryReads(d) ==
    {[k |-> k, err |-> e] : k \in 0..(BufBytes \div 2), e \in {"nil", "EOF", "read"}}
        \ (IF d.reads >= MaxReads - 1
           THEN {[k |-> k, err |-> "nil"] : k \in 1..(BufBytes \div 2)}
           ELSE {})

\* Read of the decoders that wrap a library call; offset is the number of
\* samples delivered so far
WrappedRead(d, lib, offset) ==
    LET bytes == BytesOf(Pattern(offset, lib.k))
    IN  CASE d.format = FormatMP3 ->
               [bytes |-> bytes, err |-> lib.err, dec |-> d]
          [] d.format \in {FormatWAV, FormatAIFF} ->
               IF lib.err \notin {"nil", "EOF"}
               THEN [bytes |-> <<>>, err |-> lib.err, dec |-> d]
               ELSE IF lib.k = 0
                    THEN [bytes |-> <<>>, err |-> "EOF", dec |-> d]
                    ELSE [bytes |-> bytes, err |-> lib.err, dec |-> d]
          [] OTHER ->
               IF lib.err # "nil"
               THEN [bytes |-> <<>>, err |-> lib.err, dec |-> d]
               ELSE [bytes |-> bytes, err |-> "nil", dec |-> d]

\* the results decoder.Read(buf) can give
DecoderRead(d, offset) ==
    IF Framed(d.format) THEN {FramedRead(d)}
    ELSE {WrappedRead(d, lib, offset) : lib \in LibraryReads(d)}

\* variant: every error ends the loop like io.EOF
LoopExitLenient(n, e) == IF n = 0 \/ e # "nil" THEN "break" ELSE "append"

\* if n == 0 || err != nil { if err != io.EOF { return nil, err }; break }
LoopExit(n, e) ==
    IF n = 0 \/ e # "nil"
    THEN (IF e # "EOF" THEN "return" ELSE "break")
    ELSE "append"

AudioConfigs ==
    {[DefaultConfig EXCEPT !.Bars = 2, !.Mode = ModePeak, !.Concurrent = c] :
        c \in BOOLEAN}

\* NewFromAudioFile(fname, &config) about to be called
AudioStart ==
    /\ samples = <<>>
    /\ heap = <<config>>
    /\ pc = "file"
    /\ w = Nil
    /\ path = "none"
    /\ NoWorkers
    /\ calls = {}
    /\ reads = {}
    /\ writes = {}
    /\ call = NoCall
    /\ steps = 0
    /\ fresh = 0
    /\ calc = NoCalc
    /\ twin = NoTwin
    /\ dec = NoDecoder
    /\ err = "nil"
    /\ pcm = <<>>
    /\ delivered = <<>>

AudioInit ==
    /\ fname \in Files
    /\ file \in {[handle |-> "none", frames |-> f, ending |-> e] :
                    f \in Streams, e \in {"EOF", "read"}}
    /\ config \in AudioConfigs
    /\ cfgPtr = 1
    /\ AudioStart

\* NewFromAudioFile up to the return of NewAudioDecoder, and its own return
\* when that gave an error
OpenAudioFile ==
    /\ pc = "file"
    /\ heap' = IF cfgPtr = 0 THEN Append(heap, NilConfig) ELSE heap
    /\ cfgPtr' = IF cfgPtr = 0 THEN NewObject(heap) ELSE cfgPtr
    /\ fresh' = IF cfgPtr = 0 THEN NewObject(heap) ELSE fresh
    /\ config' = heap'[cfgPtr']
    /\ \E opened \in BOOLEAN, parsed \in BOOLEAN, second \in BOOLEAN :
         LET format == DetectFormat(fname)
         IN  IF ~opened
             THEN /\ file' = file
                  /\ dec' = NoDecoder
                  /\ err' = "open"
                  /\ pc' = "failed"
             ELSE IF Created(format, parsed, second)
                  THEN /\ file' = [file EXCEPT !.handle = "open"]
                       /\ dec' = NewDecoder(format,
                                    IF Framed(format) THEN file.frames ELSE <<>>,
                                    file.ending)
                       /\ err' = "nil"
                       /\ pc' = "stat"
                  ELSE /\ file' = [file EXCEPT
                                     !.handle = HandleAfterFailure(format, parsed)]
                       /\ dec' = NoDecoder
                       /\ err' = CreationError(format)
                       /\ pc' = "failed"
    /\ UNCHANGED <<samples, w, path, locals, calls, reads, writes, call, steps,
                   calc, twin, fname, pcm, delivered>>

\* fileInfo, _ := os.Stat(path); fileInfo.Size(): a nil FileInfo when Stat
\* fails, and the deferred decoder.Close() runs as the panic unwinds
Stat ==
    /\ pc = "stat"
    /\ \E found \in BOOLEAN :
         IF found
         THEN pc' = "read" /\ UNCHANGED file
         ELSE pc' = "panic" /\ file' = [file EXCEPT !.handle = "closed"]
    /\ UNCHANGED <<samples, config, w, path, locals, calls, reads, writes, heap,
                   cfgPtr, call, steps, fresh, calc, twin, fname, dec, err, pcm,
                   delivered>>

\* one iteration of the loop of readSamplesFromFormat; when it leaves the
\* loop, the return with the deferred decoder.Close() and the error test of
\* NewFromAudioFile
ReadChunk ==
    /\ pc = "read"
    /\ \E out \in DecoderRead(dec, Len(delivered) \div 2) :
         LET n == Len(out.bytes)
             exit == LoopExit(n, out.err)
         IN  /\ dec' = [out.dec EXCEPT !.reads = dec.reads + 1]
             /\ err' = out.err
             /\ delivered' = delivered \o out.bytes
             /\ CASE exit = "append" ->
                       /\ pcm' = pcm \o FromBytes(out.bytes, n)
                       /\ pc' = "read"
                       /\ UNCHANGED <<samples, file>>
                  [] exit = "break" ->
                       /\ samples' = pcm
                       /\ pc' = "decoded"
                       /\ file' = [file EXCEPT !.handle = "closed"]
                       /\ UNCHANGED pcm
                  [] OTHER ->
                       /\ samples' = <<>>
                       /\ pc' = IF out.err # "nil" THEN "failed" ELSE "decoded"
                       /\ file' = [file EXCEPT !.handle = "closed"]
                       /\ UNCHANGED pcm
    /\ UNCHANGED <<config, w, path, locals, calls, reads, writes, heap, cfgPtr,
                   call, steps, fresh, calc, twin, fname>>

\* NewFromAudioFile after readSamplesFromFormat returned without error
Generate ==
    /\ pc = "decoded"
    /\ IF heap[cfgPtr].Concurrent
       THEN RunDownsampleConcurrent(heap[cfgPtr], cfgPtr, NewCall)
       ELSE RunDownsample(heap[cfgPtr], cfgPtr, NewCall)
    /\ UNCHANGED <<heap, steps, fresh, calc, twin, audioVars>>

AudioNext ==
    \/ OpenAudioFile
    \/ Stat
    \/ ReadChunk
    \/ Generate
    \/ Spawn
    \/ \E id \in WorkerIDs : WorkerBucket(id)
    \/ \E id \in WorkerIDs : WorkerDone(id)
    \/ Wait

AudioSpec == AudioInit /\ [][AudioNext]_vars

(***************************************************************************)
(* NewFromSamples and NewFromAudioFile called with a nil config (cfgPtr =  *)
(* 0) and with the Config that DefaultConfig() returned (cfgPtr = 1), on   *)
(* fewer samples than the threshold of downsampleConcurrent.  fresh is the *)
(* address of the Config the call itself made.                             *)
(***************************************************************************)

\* NewFromSamples(samples, nil)
NewFromSamplesNil ==
    /\ pc = "idle"
    /\ cfgPtr = 0
    /\ heap' = Append(heap, NilConfig)
    /\ fresh' = NewObject(heap)
    /\ IF NilConfig.Concurrent
       THEN RunDownsampleConcurrent(NilConfig, NewObject(heap), NewCall)
       ELSE RunDownsample(NilConfig, NewObject(heap), NewCall)
    /\ UNCHANGED <<steps, calc, twin, audioVars>>

\* the streams that hold fewer than n samples
RECURSIVE StreamLen(_)
StreamLen(frames) ==
    IF frames = <<>> THEN 0 ELSE Len(Head(frames)) + StreamLen(Tail(frames))

ShortStreams(n) == {f \in Streams : StreamLen(f) < n}

NilInit ==
    /\ cfgPtr \in {0, 1}
    /\ heap = IF cfgPtr = 0 THEN <<>> ELSE <<DefaultConfig>>
    /\ config = DefaultConfig
    /\ pc \in {"idle", "file"}
    /\ IF pc = "idle"
       THEN /\ samples \in SeqsUpTo(SmallDatasetLimit - 1)
            /\ fname = ""
            /\ file = NoFile
       ELSE /\ samples = <<>>
            /\ fname \in {"a.flac", "a.opus"}
            /\ file \in {[handle |-> "none", frames |-> f, ending |-> e] :
                            f \in ShortStreams(SmallDatasetLimit),
                            e \in {"EOF", "read"}}
    /\ w = Nil
    /\ path = "none"
    /\ NoWorkers
    /\ calls = {}
    /\ reads = {}
    /\ writes = {}
    /\ call = NoCall
    /\ steps = 0
    /\ fresh = 0
    /\ calc = NoCalc
    /\ twin = NoTwin
    /\ dec = NoDecoder
    /\ err = "nil"
    /\ pcm = <<>>
    /\ delivered = <<>>

NilNext ==
    \/ NewFromSamplesNil
    \/ NewFromSamplesConcurrent
    \/ OpenAudioFile
    \/ Stat
    \/ ReadChunk
    \/ Generate

NilSpec == NilInit /\ [][NilNext]_vars

(***************************************************************************)
(* Properties.                                                             *)
(***************************************************************************)
SampleCount == Len(samples)
Bars == config.Bars
Min(a, b) == IF a < b THEN a ELSE b

\* bucketSize = floor(N / B), clamped up to 1
BucketSize == IF SampleCount \div Bars = 0 THEN 1 ELSE SampleCount \div Bars

\* the peak of bucket i, from the inputs alone
PeakOfBucket(i) ==
    calculateLoudness(samples, i * BucketSize,
                      Min((i + 1) * BucketSize, SampleCount), config.Mode)

Returned == pc = "done"
Spawned == {id \in WorkerIDs : wpc[id] # "none"}

\* C1: generation returns exactly B peaks when N > 0 and B > 0, and an
\* empty (nil) peak sequence, without a panic, when N = 0 or B = 0.
C1_PeakCount ==
    /\ Returned =>
         IF SampleCount > 0 /\ Bars > 0
         THEN Len(w.Peaks) = Bars
         ELSE w.Peaks = Nil
    /\ (SampleCount = 0 \/ Bars = 0) => pc # "panic"

C1_Witness ==
    /\ Returned
    /\ SampleCount > 0
    /\ Bars > 1
    /\ Len(w.Peaks) = Bars

\* C2: with the concurrent flag set, below and from the small-dataset limit
\* on and for every CPU count, the returned peaks are those downsample
\* returns for the same samples, bar count and mode.
C2_ConcurrentEqualsSequential ==
    (Returned /\ config.Concurrent) =>
        w.Peaks = downsample(samples, Bars, config.Mode)

C2_Witness ==
    /\ Returned
    /\ path = "parallel"
    /\ numWorkers > 1
    /\ Bars % numWorkers # 0
    /\ w.Peaks = downsample(samples, Bars, config.Mode)

\* C3: in the parallel path, under every interleaving, each written output
\* position i holds the peak of bucket i, a function of the inputs alone, and
\* so does every position of the returned sequence.
C3_PositionByBucketIndex ==
    path = "parallel" =>
        /\ \A wr \in writes : At(peaks, wr[2]) = PeakOfBucket(wr[2])
        /\ Returned => w.Peaks = [i \in 1..Bars |-> PeakOfBucket(i - 1)]

C3_Witness ==
    /\ Returned
    /\ path = "parallel"
    /\ numWorkers > 1
    /\ \E i, j \in 1..Bars : w.Peaks[i] # w.Peaks[j]

\* C4: in the parallel path every output index is written by at most one
\* worker, each worker writes only indices of its own bucket range, and the
\* only access of a worker to the output slice is that write.
C4_DisjointWrites ==
    /\ \A a, b \in writes : a[2] = b[2] => a[1] = b[1]
    /\ \A a \in writes :
         /\ a[1] * bucketsPerWorker <= a[2]
         /\ a[2] < IF a[1] = numWorkers - 1 THEN Bars
                   ELSE (a[1] + 1) * bucketsPerWorker

C4_Witness ==
    /\ pc \in {"spawn", "wait"}
    /\ \E a, b \in writes : a[1] # b[1]
    /\ \E id \in WorkerIDs : wpc[id] = "run"

\* C5: when downsampleConcurrent returns from the parallel path, every
\* worker it was to spawn has finished and every output position has been
\* written.
C5_ReturnAfterJoin ==
    (Returned /\ path = "parallel") =>
        /\ \A id \in WorkerIDs : wpc[id] # "run"
        /\ Spawned = 0..(numWorkers - 1)
        /\ \A i \in 0..(Bars - 1) : \E wr \in writes : wr[2] = i

C5_Witness ==
    /\ Returned
    /\ path = "parallel"
    /\ numWorkers > 1
    /\ \A id \in 0..(numWorkers - 1) : wpc[id] = "done"

\* C6: a worker is spawned only when the concurrent flag is set and the
\* sample count is at least the small-dataset limit; below the limit the run
\* is sequential whatever the flag.
C6_SpawnOnlyLargeConcurrent ==
    /\ (Spawned # {} \/ path = "parallel") =>
         (config.Concurrent /\ SampleCount >= SmallDatasetLimit)
    /\ (Returned /\ SampleCount < SmallDatasetLimit) =>
         (path \in {"empty", "sequential"} /\ Spawned = {} /\ writes = {})

C6_Witness ==
    /\ Returned
    /\ config.Concurrent
    /\ SampleCount > 0
    /\ SampleCount < SmallDatasetLimit
    /\ Bars > 0
    /\ path = "sequential"
    /\ Spawned = {}

\* C7: when B > N > 0 there is no panic, no sample index outside [0, N) is
\* read, and every bucket whose start index is >= N has peak 0.
C7_MoreBarsThanSamples ==
    (Bars > SampleCount /\ SampleCount > 0) =>
        /\ pc # "panic"
        /\ reads \subseteq 0..(SampleCount - 1)
        /\ Returned =>
             \A i \in 0..(Bars - 1) :
                i * BucketSize >= SampleCount => At(w.Peaks, i) = Zero

C7_Witness ==
    /\ Returned
    /\ Bars > SampleCount
    /\ SampleCount > 0
    /\ At(w.Peaks, Bars - 1) = Zero
    /\ At(w.Peaks, 0) # Zero
    /\ reads = 0..(SampleCount - 1)

\* C8: for N > 0 and B > 0 bucket i is reduced over exactly
\* [i*bucketSize, min((i+1)*bucketSize, N)), in both paths, once per
\* bucket, with no remainder given to any bucket.
C8_BucketRanges ==
    /\ \A c \in calls :
         /\ c[1] \in 0..(Bars - 1)
         /\ c[2] = c[1] * BucketSize
         /\ c[3] = Min((c[1] + 1) * BucketSize, SampleCount)
    /\ (Returned /\ SampleCount > 0 /\ Bars > 0) =>
         /\ {c[1] : c \in calls} = 0..(Bars - 1)
         /\ \A i \in 0..(Bars - 1) : At(w.Peaks, i) = PeakOfBucket(i)

C8_Witness ==
    /\ Returned
    /\ SampleCount > Bars
    /\ Bars > 1
    /\ SampleCount % Bars # 0
    /\ Cardinality(calls) = Bars

\* C9 as stated: every range passed to a calculator has
\* 0 <= start <= end <= N.
C9_AsStated ==
    \A c \in calls : 0 <= c[2] /\ c[2] <= c[3] /\ c[3] <= SampleCount

\* C9 amended: every range passed to a calculator has 0 <= start and
\* 0 <= end <= N; start <= end holds for every bucket with start <= N, and
\* a bucket with start > N (which needs B > N + 1) is passed end = N.
C9_RangeBounds ==
    \A c \in calls :
        /\ 0 <= c[2]
        /\ 0 <= c[3]
        /\ c[3] <= SampleCount
        /\ c[2] <= SampleCount => c[2] <= c[3]
        /\ c[2] > SampleCount => (c[3] = SampleCount /\ Bars > SampleCount + 1)

C9_Witness ==
    /\ Returned
    /\ path = "parallel"
    /\ \E c \in calls : c[2] > c[3]
    /\ \E c \in calls : c[2] < c[3]

\* C10 as stated: the end of bucket i is the start of bucket i+1 for all
\* buckets, the buckets do not overlap, are ordered by index, and their
\* union is [0, min(B*bucketSize, N)).
C10_AsStated ==
    /\ \A c, d \in calls : d[1] = c[1] + 1 => c[3] = d[2]
    /\ \A c, d \in calls :
         c[1] < d[1] => ReadIndices(c[2], c[3]) \cap ReadIndices(d[2], d[3]) = {}
    /\ \A c, d \in calls : c[1] < d[1] => c[2] <= d[2]
    /\ (Returned /\ SampleCount > 0 /\ Bars > 0) =>
         CallReads(calls) = 0..(Min(Bars * BucketSize, SampleCount) - 1)

\* C10 amended: the end of bucket i is the start of bucket i+1 whenever
\* the start of bucket i+1 is <= N (always when B <= N + 1); the buckets
\* do not overlap, their starts increase with the index, and the union of
\* their index sets is [0, min(B*bucketSize, N)).
C10_Partition ==
    /\ \A c, d \in calls :
         (d[1] = c[1] + 1 /\ d[2] <= SampleCount) => c[3] = d[2]
    /\ \A c, d \in calls :
         c[1] < d[1] => ReadIndices(c[2], c[3]) \cap ReadIndices(d[2], d[3]) = {}
    /\ \A c, d \in calls : c[1] < d[1] => c[2] < d[2]
    /\ (Returned /\ SampleCount > 0 /\ Bars > 0) =>
         CallReads(calls) = 0..(Min(Bars * BucketSize, SampleCount) - 1)

C10_Witness ==
    /\ Returned
    /\ SampleCount > 0
    /\ Bars > SampleCount + 1
    /\ \E c, d \in calls : d[1] = c[1] + 1 /\ c[3] # d[2]
    /\ \E c, d \in calls : d[1] = c[1] + 1 /\ c[3] = d[2] /\ c[2] < c[3]

(***************************************************************************)
(* Properties of the calculators (CalcSpec).                               *)
(***************************************************************************)
Calculated == pc = "calculated"
CalcRange == ReadIndices(calc.start, calc.end)

\* C11: calculateLoudness returns the result of exactly the calculator its
\* mode names, for each of the six mode tags, and for every other mode
\* value, the empty string included, the result of calculateLUFS on the
\* same range.
C11_Dispatch ==
    Calculated =>
        LET m == config.Mode
            a == calc.start
            b == calc.end
        IN  /\ m = "rms" => calc.result = calculateRMS(samples, a, b)
            /\ m = "lufs" => calc.result = calculateLUFS(samples, a, b)
            /\ m = "peak" => calc.result = calculatePeak(samples, a, b)
            /\ m = "vu" => calc.result = calculateVU(samples, a, b)
            /\ m = "dynamic" => calc.result = calculateDynamic(samples, a, b)
            /\ m = "smooth" => calc.result = calculateSmooth(samples, a, b)
            /\ m \notin {"rms", "lufs", "peak", "vu", "dynamic", "smooth"}
                  => calc.result = calculateLUFS(samples, a, b)

\* an unrecognised mode on a range where LUFS and RMS differ
C11_Witness ==
    /\ Calculated
    /\ config.Mode = ""
    /\ calc.result = calculateLUFS(samples, calc.start, calc.end)
    /\ calc.result # calculateRMS(samples, calc.start, calc.end)

\* the sign of a result: an exact value by its numerator; fastSqrt(x) is
\* 1.0 / y for a positive y when x > 0, so a product of fastSqrt values and
\* positive constants is positive when every argument is
Positive(q) == RLess(RZero, q)

NonNegative(r) ==
    CASE r.form = "exact" -> r.num >= 0 /\ r.den > 0
      [] r.form \in {"sqrt", "vu", "lufsLoud", "lufsQuiet"} -> Positive(<<r.num, r.den>>)
      [] r.form = "dynamic" -> Positive(<<r.num, r.den>>) /\ Positive(r.terms[1])
      [] r.form = "smooth" ->
            /\ r.num > 0
            /\ \A k \in DOMAIN r.terms : ~RLess(r.terms[k], RZero)
      [] OTHER -> FALSE

\* C12: for every mode and every sample range calculateLoudness returns a
\* value >= 0.
C12_NonNegative == Calculated => NonNegative(calc.result)

\* a non-zero result over a range that holds a negative sample
C12_Witness ==
    /\ Calculated
    /\ config.Mode = ModePeak
    /\ \E i \in CalcRange : At(samples, i) < 0
    /\ calc.result # Zero

MaxAbs(S) == CHOOSE m \in S : \A x \in S : x <= m

\* C13: in Peak mode the result for a non-empty range is the maximum of
\* |sample| / 32768 over the range; it lies in [0, 1], and a range holding
\* the sample -32768 gives exactly 1.
C13_PeakIsMaxAbs ==
    (Calculated /\ config.Mode = ModePeak /\ CalcRange # {}) =>
        LET q == <<calc.result.num, calc.result.den>>
        IN  /\ calc.result =
                 Exact(Rat(MaxAbs({Abs(At(samples, i)) : i \in CalcRange}), 32768))
            /\ ~RLess(q, RZero)
            /\ ~RLess(ROne, q)
            /\ (\E i \in CalcRange : At(samples, i) = -32768) => calc.result = Exact(ROne)

\* a range that holds both -32768 and a positive sample, with result 1
C13_Witness ==
    /\ Calculated
    /\ config.Mode = ModePeak
    /\ \E i \in CalcRange : At(samples, i) = -32768
    /\ \E i \in CalcRange : At(samples, i) = 16384
    /\ calc.result = Exact(ROne)

(***************************************************************************)
(* Properties of generation on a constant input (Spec).                    *)
(***************************************************************************)
ConstantInput(c) == SampleCount > 0 /\ \A i \in DOMAIN samples : samples[i] = c

\* C14: for N >= B > 0 repetitions of one value c, Peak mode returns
\* |c| / 32768 in every one of the B peaks, on the sequential path and on
\* the parallel path alike.
C14_ConstantInputPeak ==
    \A c \in SampleValues :
        (Returned /\ ConstantInput(c) /\ config.Mode = ModePeak
                  /\ Bars > 0 /\ SampleCount >= Bars)
            => w.Peaks = [i \in 1..Bars |-> Exact(Rat(Abs(c), 32768))]

\* the parallel path on a constant input with several buckets
C14_Witness ==
    /\ Returned
    /\ path = "parallel"
    /\ ConstantInput(16384)
    /\ config.Mode = ModePeak
    /\ Bars > 1
    /\ SampleCount >= Bars
    /\ w.Peaks = [i \in 1..Bars |-> Exact(Rat(1, 2))]

(***************************************************************************)
(* Properties of the Waveform's life (LifeSpec).                           *)
(***************************************************************************)
Updated == pc = "done" /\ call.op = "update"
Held == heap[w.Config]

\* C15: UpdateConfig always makes its config argument the Waveform's
\* Config; it assigns Peaks if and only if the new mode differs from the
\* mode held when the call was entered and samples is not nil, and then
\* Peaks is the generation result for the new config; in every other call,
\* one that changes only width, height, spacing, color or radius included,
\* Peaks is what it was before the call.
C15_UpdateConfigEffect ==
    Updated =>
        /\ w.Config = cfgPtr
        /\ call.regenerated <=> (call.oldMode # config.Mode /\ call.provided)
        /\ ~call.regenerated => w.Peaks = call.oldPeaks
        /\ call.regenerated => w.Peaks = downsample(samples, config.Bars, config.Mode)

\* an UpdateConfig call that regenerated, and changed the peaks
C15_Witness ==
    /\ Updated
    /\ call.regenerated
    /\ call.provided
    /\ call.oldMode # config.Mode
    /\ w.Peaks # call.oldPeaks
    /\ w.Peaks = downsample(samples, config.Bars, config.Mode)

\* C16 as stated: the Waveform holds a copy of the config it was given, so
\* the Config it holds is, after the call has returned and whatever the
\* caller then assigns to the object it passed in, the Config the call read.
C16_AsStated == (pc = "done" /\ call.op # "none") => Held = config

\* C17 as stated: after any sequence of NewFromSamples and UpdateConfig
\* calls with the same non-empty samples, Peaks is the generation result for
\* the bars and mode of the Config the Waveform holds, so len(Peaks) = Bars.
\* (The calls considered pass samples every time, and the caller has not
\* assigned to the object the Waveform holds.)
C17_AsStated ==
    (pc = "done" /\ call.op # "none" /\ call.clean /\ SampleCount > 0) =>
        /\ w.Peaks = downsample(samples, Held.Bars, Held.Mode)
        /\ Len(w.Peaks) = Held.Bars

\* C18: no step of NewFromSamples, UpdateConfig, downsample,
\* downsampleConcurrent or a calculator changes the caller's sample slice,
\* in contents or in length, on the sequential path and in every
\* interleaving of the parallel path.
C18_SamplesUnchanged == [][samples' = samples]_vars

\* a parallel regeneration has returned and the slice is the initial one
C18_Witness ==
    /\ Updated
    /\ call.regenerated
    /\ path = "parallel"
    /\ reads = 0..(SampleCount - 1)
    /\ samples = LifeSeq(MaxSamples)

(***************************************************************************)
(* Termination (LiveSpec).                                                 *)
(***************************************************************************)
AllJoined == wg = 0 /\ \A id \in WorkerIDs : wpc[id] # "run"

\* C19: every generation run eventually returns, whatever N, B and mode:
\* under fair scheduling every goroutine started ends, the WaitGroup
\* counter comes back to zero and wg.Wait() is released.
C19_Terminates == (pc # "done") ~> (Returned /\ AllJoined)

\* a parallel run with several goroutines has returned
C19_Witness ==
    /\ Returned
    /\ path = "parallel"
    /\ numWorkers > 1
    /\ AllJoined
    /\ \A id \in 0..(numWorkers - 1) : wpc[id] = "done"

(***************************************************************************)
(* Properties of DefaultConfig (ConfigSpec).                               *)
(***************************************************************************)
\* C20: every call of DefaultConfig returns width 500, height 80, bars 100,
\* barSpacing 2, barColor "#3B82F6", cornerRadius 8.0, concurrent true and
\* mode "dynamic", whatever the caller assigned to the Configs that earlier
\* calls returned.
C20_Defaults ==
    fresh # 0 =>
        /\ heap[fresh].Width = 500
        /\ heap[fresh].Height = 80
        /\ heap[fresh].Bars = 100
        /\ heap[fresh].BarSpacing = 2
        /\ heap[fresh].BarColor = "#3B82F6"
        /\ heap[fresh].CornerRadius = <<8, 1>>
        /\ heap[fresh].Concurrent = TRUE
        /\ heap[fresh].Mode = "dynamic"

\* a second call, after two assignments to the Config the first returned
C20_Witness ==
    /\ fresh = 2
    /\ steps = 2
    /\ heap[1].Bars # 100
    /\ heap[1].Mode # "dynamic"
    /\ heap[2].Bars = 100
    /\ heap[2].Mode = "dynamic"

(***************************************************************************)
(* Properties of the division of the buckets among the goroutines (Spec).  *)
(***************************************************************************)
Parallel == path = "parallel"

\* the bucket indices goroutine id has assigned to
Owned(id) == {wr[2] : wr \in {x \in writes : x[1] = id}}

\* C22: with W the effective worker count, worker id < W - 1 is assigned
\* exactly the floor(B / W) buckets [id * floor(B / W), (id + 1) * floor(B / W)),
\* the last worker the buckets from (W - 1) * floor(B / W) up to B, so the
\* ranges are contiguous and ordered by worker index, and every bucket index
\* in [0, B) is assigned to exactly one worker.
C22_WorkerRanges ==
    (Returned /\ Parallel) =>
        LET W == numWorkers
            share == Bars \div W
        IN  /\ \A id \in 0..(W - 2) :
                  Owned(id) = (id * share)..((id + 1) * share - 1)
            /\ Owned(W - 1) = ((W - 1) * share)..(Bars - 1)
            /\ \A id \in WorkerIDs : id >= W => Owned(id) = {}
            /\ \A b \in 0..(Bars - 1) :
                  Cardinality({id \in WorkerIDs : b \in Owned(id)}) = 1

\* several workers and a remainder for the last one
C22_Witness ==
    /\ Returned
    /\ Parallel
    /\ numWorkers > 1
    /\ Bars % numWorkers # 0
    /\ Cardinality(Owned(numWorkers - 1)) > Cardinality(Owned(0))

\* C23: the effective worker count is runtime.NumCPU() when that is <= B
\* and B otherwise; it lies between 1 and B, and every goroutine started is
\* assigned at least one bucket.
C23_WorkerCount ==
    Parallel =>
        /\ numWorkers = (IF numCPU <= Bars THEN numCPU ELSE Bars)
        /\ 1 <= numWorkers
        /\ numWorkers <= Bars
        /\ Spawned \subseteq 0..(numWorkers - 1)
        /\ Returned => \A id \in 0..(numWorkers - 1) : Owned(id) # {}

\* more CPUs than buckets: the count is reduced to B
C23_Witness ==
    /\ Returned
    /\ Parallel
    /\ numCPU > Bars
    /\ numWorkers = Bars
    /\ Bars > 1
    /\ \A id \in 0..(numWorkers - 1) : Cardinality(Owned(id)) = 1

(***************************************************************************)
(* Properties of calculateRMS (RMSSpec).                                   *)
(***************************************************************************)
\* the squared sum taken one sample at a time over [start, end)
RECURSIVE StraightSum(_, _, _)
StraightSum(s, start, end) ==
    IF end <= start THEN RZero
    ELSE RAdd(StraightSum(s, start, end - 1),
              RMul(Normalized(s, end - 1), Normalized(s, end - 1)))

\* C24: the 8-way unrolled loop and the remainder loop of calculateRMS add
\* the square of every sample index in [start, end) once and of no other
\* index: the result is the square root of the one-at-a-time squared sum
\* divided by the length, for every length, those below 8 and those that
\* are no multiple of 8 included.
C24_UnrolledSum ==
    (Calculated /\ CalcRange # {}) =>
        calc.result =
            fastSqrt(RDivInt(StraightSum(samples, calc.start, calc.end),
                             calc.end - calc.start))

\* two unrolled iterations and a remainder, the marked sample in the range
C24_Witness ==
    /\ Calculated
    /\ calc.end - calc.start = 17
    /\ \E i \in CalcRange : At(samples, i) = -32768
    /\ calc.result = fastSqrt(Rat(20, 68))

Enhanced == pc = "enhanced"

\* C25: in LUFS mode the value v returned by fastSqrt for a non-empty bucket
\* becomes v*0.5 when v <= 0.1 and v*v*2 when v > 0.1; v = 0.1 itself takes
\* the v*0.5 branch
C25_Threshold ==
    Enhanced =>
        LET v == calc.base
        IN  /\ ~RLess(Rat(1, 10), v) => calc.result = Exact(RMul(v, Rat(1, 2)))
            /\ RLess(Rat(1, 10), v) => calc.result = Exact(RMul(RMul(v, v), <<2, 1>>))

C25_Witness ==
    /\ Enhanced
    /\ calc.base = Rat(1, 10)
    /\ calc.result = Exact(Rat(1, 20))

\* the two slices agree on the indices [from, to)
Agree(from, to) ==
    \A i \in from..(to - 1) : At(samples, i) = At(twin.samples, i)

\* C26: peak i depends only on the samples of bucket i's range: two slices
\* of equal length that agree on that range give the same peak i, in every
\* mode
C26_BucketsIndependent ==
    (Returned /\ w.Peaks # Nil) =>
        LET n == Len(samples)
            perB == samplesPerBucket(n, config.Bars)
        IN  \A i \in 0..(config.Bars - 1) :
                Agree(BucketStart(i, perB), BucketEnd(i, perB, n))
                    => w.Peaks[i + 1] = twin.peaks[i + 1]

\* LUFS and Smooth, the two slices differing in the sample just before a
\* bucket whose range they agree on
C26_Witness ==
    /\ Returned
    /\ config.Bars = 2
    /\ Len(samples) = 4
    /\ At(samples, 1) # At(twin.samples, 1)
    /\ Agree(2, 4)
    /\ config.Mode \in {ModeLUFS, ModeSmooth}
    /\ w.Peaks[2] = twin.peaks[2]
    /\ w.Peaks[1] # twin.peaks[1]

\* C28: with N > B > 0 and N not a multiple of B, the samples from
\* B*floor(N/B) on are read by no bucket: two slices of length N that agree
\* before that index give the same peaks
C28_TailUnread ==
    LET n == Len(samples)
        b == config.Bars
    IN  (Returned /\ n > b /\ b > 0 /\ n % b # 0 /\ Agree(0, b * (n \div b)))
            => w.Peaks = twin.peaks

C28_Witness ==
    /\ Returned
    /\ Parallel
    /\ Len(samples) = 3
    /\ config.Bars = 2
    /\ Agree(0, 2)
    /\ At(samples, 2) # At(twin.samples, 2)
    /\ w.Peaks = twin.peaks
    /\ w.Peaks # Nil

\* NewAudioDecoder returned an error: NewFromAudioFile has failed with no
\* decoder made
CreationFailed == pc = "failed" /\ dec = NoDecoder

\* C30: NewAudioDecoder returns a decoder and no error or no decoder and an
\* error; after an error that followed a successful os.Open the file is
\* closed; an unrecognized extension always gives an error
C30_DecoderOrError ==
    /\ pc = "stat" => (dec # NoDecoder /\ err = "nil" /\ file.handle = "open")
    /\ CreationFailed =>
          /\ err \in {"open", "parse", "invalid", "unsupported"}
          /\ file.handle = (IF err = "open" THEN "none" ELSE "closed")
    /\ (pc # "file" /\ DetectFormat(fname) = FormatUnknown) => CreationFailed

\* oggvorbis.NewReader accepted the file and GetFormat failed
C30_Witness ==
    /\ CreationFailed
    /\ DetectFormat(fname) = FormatOGG
    /\ err = "parse"
    /\ file.handle = "closed"

\* C27: when the decoder cannot be created or a Read gives an error other
\* than io.EOF, NewFromAudioFile returns a nil Waveform and that error, and
\* no Waveform is built from the samples decoded so far
C27_ErrorsSurface ==
    err \notin {"nil", "EOF"} => (pc = "failed" /\ w = Nil)

\* a Read failed after an earlier Read had delivered samples
C27_Witness ==
    /\ pc = "failed"
    /\ err = "read"
    /\ pcm # <<>>
    /\ w = Nil

\* C29 as stated: the samples returned without error are the concatenation
\* of every chunk the Read calls delivered
C29_AsStated ==
    pc = "decoded" => samples = FromBytes(delivered, Len(delivered))

\* C21: a call of NewFromSamples or NewFromAudioFile with a nil config
\* returns what the call with DefaultConfig() returns: a Waveform that holds
\* the default Config (100 bars, Dynamic mode, Concurrent true) and the peaks
\* that downsampleConcurrent gives for 100 bars in Dynamic mode
C21_NilIsDefault ==
    Returned =>
        /\ w.Config # 0
        /\ heap[w.Config] =
              [Width |-> 500, Height |-> 80, Bars |-> 100, BarSpacing |-> 2,
               BarColor |-> "#3B82F6", CornerRadius |-> <<8, 1>>,
               Concurrent |-> TRUE, Mode |-> "dynamic"]
        /\ w.Peaks = downsample(samples, 100, "dynamic")
        /\ call.op = "new"

\* NewFromAudioFile(fname, nil) on a file that gave samples
C21_Witness ==
    /\ Returned
    /\ fresh # 0
    /\ w.Config = fresh
    /\ fname # ""
    /\ samples # <<>>
    /\ Len(w.Peaks) = 100
    /\ w.Peaks[1] # Zero

====
